---- MODULE Spec2Model ----
(***************************************************************************)
(* A model of kklab2.py: a context-free grammar (class CFG), the nullable  *)
(* analysis find_nullable, the epsilon eliminator remove_epsilon_rules and *)
(* the left-recursion eliminator eliminate_left_recursion.                 *)
(*                                                                         *)
(* Symbols are strings.  A production body is a sequence of symbols, the   *)
(* empty sequence being an epsilon body.  A Python dict is modelled as a   *)
(* sequence of <<key, value>> pairs in insertion order (Get, Put): the     *)
(* code iterates cfg.P.items() in that order.  cfg.N is modelled by the    *)
(* sequence in which the code iterates it (line 83).                       *)
(***************************************************************************)
EXTENDS Integers, Sequences, FiniteSets, TLC

VARIABLES
    cfg,        \* the grammar the caller constructed (the input object)
    pc,         \* which call has returned: "ready", "nullable", "eps", "lr", "final"
    nullable,   \* the value returned by find_nullable(cfg)
    eps,        \* the grammar returned by remove_epsilon_rules(cfg)
    lr,         \* the grammar returned by eliminate_left_recursion
    cur,        \* eliminate_left_recursion's current_rules of each A at line 101
    err         \* the exception a call ended with, "none" when it returned

vars == <<cfg, pc, nullable, eps, lr, cur, err>>

(***************************************************************************)
(* Bounds of the input grammars.                                           *)
(***************************************************************************)
MaxSize == 4        \* size of the input's productions: each body counts 1 + its length
MaxStrLen == 2      \* length of the terminal strings whose derivability is compared

NamePool == {"A", "A'", "B"}    \* names the input's nonterminals are drawn from
TermPool == {"a"}               \* the input's terminals

\* the members of a list
Range(s) == {s[i] : i \in 1..Len(s)}

RECURSIVE Pow2(_)
Pow2(n) == IF n = 0 THEN 1 ELSE 2 * Pow2(n - 1)

\* the orders in which the members of a set can be listed
RECURSIVE Perms(_)
Perms(S) ==
    IF S = {} THEN {<<>>}
    ELSE UNION {{<<x>> \o p : p \in Perms(S \ {x})} : x \in S}

(***************************************************************************)
(* Python dict: insertion-ordered pairs.                                   *)
(***************************************************************************)
HasKey(d, k) == \E i \in 1..Len(d) : d[i][1] = k

Get(d, k) == d[CHOOSE i \in 1..Len(d) : d[i][1] = k][2]

Put(d, k, v) ==
    IF HasKey(d, k)
    THEN [i \in 1..Len(d) |-> IF d[i][1] = k THEN <<k, v>> ELSE d[i]]
    ELSE Append(d, <<k, v>>)

Keys(d) == {d[i][1] : i \in 1..Len(d)}

\* cfg.P.items() flattened to the (head, body) pairs the nested loops visit
RECURSIVE Items(_)
Items(d) ==
    IF d = <<>> THEN <<>>
    ELSE [k \in 1..Len(d[1][2]) |-> <<d[1][1], d[1][2][k]>>] \o Items(Tail(d))

\* the value of eps and lr while the call that sets them has not returned
NoGrammar == [N |-> <<>>, Sigma |-> {}, P |-> <<>>, S |-> ""]

(***************************************************************************)
(* find_nullable (lines 22-34).                                            *)
(***************************************************************************)
\* one pass of the for loops (lines 28-33) over the pairs from index i on
RECURSIVE NullablePass(_, _, _)
NullablePass(items, i, st) ==
    IF i > Len(items) THEN st
    ELSE LET head == items[i][1]
             body == items[i][2]
             hit == body = <<>> \/ \A k \in 1..Len(body) : body[k] \in st.nullable
         IN NullablePass(items, i + 1,
                IF hit /\ head \notin st.nullable
                THEN [nullable |-> st.nullable \cup {head}, changed |-> TRUE]
                ELSE st)

\* the while loop (lines 26-33)
RECURSIVE NullableLoop(_, _)
NullableLoop(items, found) ==
    LET st == NullablePass(items, 1, [nullable |-> found, changed |-> FALSE])
    IN IF st.changed THEN NullableLoop(items, st.nullable) ELSE st.nullable

\* a find_nullable that runs the for loops once and never repeats them
find_nullable_one_pass(g) ==
    NullablePass(Items(g.P), 1, [nullable |-> {}, changed |-> FALSE]).nullable

find_nullable(g) == NullableLoop(Items(g.P), {})

(***************************************************************************)
(* The input grammars: well-formed (section 3 of the specification): the   *)
(* nonterminals are distinct, the start symbol is one of them, every head  *)
(* has an entry in P, every body symbol is a nonterminal or a terminal.    *)
(* The keys of P are in the order of N and the bodies under a head are     *)
(* distinct.                                                               *)
(***************************************************************************)
\* the bodies of at most n symbols
BodiesUpTo(syms, n) == UNION {[1..l -> syms] : l \in 0..n}

\* the size of a list of <<head index, body>> pairs
RECURSIVE Size(_)
Size(rl) == IF rl = <<>> THEN 0 ELSE 1 + Len(rl[1][2]) + Size(Tail(rl))

\* a rule list extended by one more <<head index, body>> pair: the heads stay in
\* the order of the dict, the bodies under one head are distinct, the size
\* stays within MaxSize
Extended(rl, nheads, syms) ==
    UNION {{Append(rl, <<h, b>>) :
                b \in BodiesUpTo(syms, MaxSize - Size(rl) - 1)
                        \ {rl[k][2] : k \in {m \in 1..Len(rl) : rl[m][1] = h}}} :
           h \in {x \in 1..nheads : rl # <<>> => x >= rl[Len(rl)][1]}}

\* the productions of a grammar written down head by head: at most n pairs
RECURSIVE RuleLists(_, _, _)
RuleLists(nheads, syms, n) ==
    IF n = 0 THEN {<<>>}
    ELSE LET shorter == RuleLists(nheads, syms, n - 1)
         IN shorter \cup
            UNION {Extended(rl, nheads, syms) : rl \in {x \in shorter : Len(x) = n - 1}}

\* the body list of head index h in a rule list
RECURSIVE BodiesOf(_, _)
BodiesOf(rl, h) ==
    IF rl = <<>> THEN <<>>
    ELSE (IF rl[1][1] = h THEN <<rl[1][2]>> ELSE <<>>) \o BodiesOf(Tail(rl), h)

DictOf(order, rl) == [i \in 1..Len(order) |-> <<order[i], BodiesOf(rl, i)>>]

Init ==
    /\ \E names \in (SUBSET NamePool) \ {{}} :
         \E order \in Perms(names) :
            \E rl \in RuleLists(Len(order), names \cup TermPool, MaxSize) :
               \E s \in 1..Len(order) :
                  cfg = [N |-> order, Sigma |-> TermPool, P |-> DictOf(order, rl),
                         S |-> order[s]]
    /\ pc = "ready"
    /\ nullable = {}
    /\ eps = NoGrammar
    /\ lr = NoGrammar
    /\ cur = <<>>
    /\ err = "none"

(***************************************************************************)
(* remove_epsilon_rules (lines 36-80).                                     *)
(***************************************************************************)
\* Python's None, which no symbol of a grammar is
None == "<None>"

\* line 44: the indices of the nullable symbols of body, ascending
Positions(body, nl) ==
    SelectSeq([i \in 1..Len(body) |-> i], LAMBDA i : body[i] \in nl)

\* line 49: (mask >> j) & 1, j counted from 0
Bit(mask, j) == (mask \div Pow2(j)) % 2

\* lines 48-50: the list after new_body[positions[j]] = None for every set bit j
Masked(new_body, positions, mask) ==
    [i \in 1..Len(new_body) |->
        IF \E j \in 1..Len(positions) : positions[j] = i /\ Bit(mask, j - 1) = 1
        THEN None ELSE new_body[i]]

\* line 51
Compact(new_body) == SelectSeq(new_body, LAMBDA s : s # None)

\* new_body = body, the list itself instead of a copy of it
ListAlias(l) == [fresh |-> FALSE, val |-> l]

\* line 47: body.copy(), a new list object holding the elements of l
ListCopy(l) == [fresh |-> TRUE, val |-> l]

\* lines 46-53 from mask on, for one body of head; body is the content of the
\* list object cfg.P[head][k] as it stands, which line 50 changes only when
\* new_body is that same object
RECURSIVE MaskLoop(_, _, _, _, _, _)
MaskLoop(head, S, body, positions, mask, new_bodies) ==
    IF mask >= Pow2(Len(positions))
    THEN [body |-> body, new_bodies |-> new_bodies]
    ELSE LET new_body == ListCopy(body)
             written == Masked(new_body.val, positions, mask)
             candidate == Compact(written)
         IN MaskLoop(head, S, IF new_body.fresh THEN body ELSE written,
                     positions, mask + 1,
                     IF candidate # <<>> \/ head = S
                     THEN new_bodies \cup {candidate} ELSE new_bodies)

\* lines 43-54 for the bodies of head from index k on
RECURSIVE BodyLoop(_, _, _, _, _)
BodyLoop(head, S, nl, k, st) ==
    IF k > Len(st.bodies) THEN st
    ELSE LET r == MaskLoop(head, S, st.bodies[k], Positions(st.bodies[k], nl), 0,
                           st.new_bodies)
         IN BodyLoop(head, S, nl, k + 1,
                [bodies |-> [st.bodies EXCEPT ![k] = r.body],
                 new_bodies |-> r.new_bodies \cup {r.body}])

\* a HeadLoop without lines 56-57: what line 54 added stays
HeadLoopUnfiltered(head, bodies, S, nl) ==
    BodyLoop(head, S, nl, 1, [bodies |-> bodies, new_bodies |-> {}])

\* lines 42-57 for one head: the head's input list after the loop, and new_bodies
HeadLoop(head, bodies, S, nl) ==
    LET st == BodyLoop(head, S, nl, 1, [bodies |-> bodies, new_bodies |-> {}])
    IN [bodies |-> st.bodies,
        new_bodies |-> IF head # S THEN {b \in st.new_bodies : b # <<>>}
                       ELSE st.new_bodies]

\* lines 41-58 for every head of cfg.P
Step1(g) ==
    LET nl == find_nullable(g)
    IN [i \in 1..Len(g.P) |-> HeadLoop(g.P[i][1], g.P[i][2], g.S, nl)]

\* line 58: a set is listed in the order its iteration yields, which is any order
RECURSIVE Listings(_, _, _)
Listings(g, st, i) ==
    IF i > Len(st) THEN {<<>>}
    ELSE UNION {{<<<<g.P[i][1], p>>>> \o rest : rest \in Listings(g, st, i + 1)} :
                p \in Perms(st[i].new_bodies)}

\* lines 61-68
SInRhs(S, np) == \E i \in 1..Len(np) : \E k \in 1..Len(np[i][2]) : S \in Range(np[i][2][k])

\* list.remove(x): the first occurrence of x is deleted
RECURSIVE ListRemove(_, _)
ListRemove(l, x) ==
    IF l = <<>> THEN <<>>
    ELSE IF l[1] = x THEN Tail(l) ELSE <<l[1]>> \o ListRemove(Tail(l), x)

\* a Step3 that takes the else branch (lines 77-78) whatever s_in_rhs is
Step3IgnoringRhs(g, np) ==
    LET sb == Get(np, g.S)
    IN IF g.S \in find_nullable(g) /\ <<>> \notin Range(sb)
       THEN Put(np, g.S, Append(sb, <<>>)) ELSE np

\* lines 71-78
Step3(g, np) ==
    LET sb == Get(np, g.S)
    IN IF SInRhs(g.S, np)
       THEN IF <<>> \in Range(sb) THEN Put(np, g.S, ListRemove(sb, <<>>)) ELSE np
       ELSE IF g.S \in find_nullable(g) /\ <<>> \notin Range(sb)
            THEN Put(np, g.S, Append(sb, <<>>)) ELSE np

\* the grammars remove_epsilon_rules(g) may return (line 80), one for each order
\* in which the sets of line 58 are listed
remove_epsilon_rules(g) ==
    {[N |-> g.N, Sigma |-> g.Sigma, P |-> Step3(g, np), S |-> g.S] :
        np \in Listings(g, Step1(g), 1)}

\* the object g after remove_epsilon_rules(g) has run: its lists hold what the
\* loops left in them
AfterRemoveEpsilon(g) ==
    [g EXCEPT !.P = [i \in 1..Len(g.P) |-> <<g.P[i][1], Step1(g)[i].bodies>>]]

(***************************************************************************)
(* eliminate_left_recursion (lines 81-114).                                *)
(***************************************************************************)
\* line 83: list(OrderedDict.fromkeys(cfg.N)), the first occurrences in order
RECURSIVE Dedup(_, _)
Dedup(l, seen) ==
    IF l = <<>> THEN <<>>
    ELSE IF l[1] \in seen THEN Dedup(Tail(l), seen)
         ELSE <<l[1]>> \o Dedup(Tail(l), seen \cup {l[1]})

\* line 107: A + "'"
Prime(A) == A \o "'"

\* line 95, line 104: rule and rule[0] == X
LeadsWith(rule, X) == rule # <<>> /\ rule[1] = X

\* lines 93-98: the rules led by B replaced by one rule for each body of B
RECURSIVE Substitute(_, _, _)
Substitute(rules, B, bodiesB) ==
    IF rules = <<>> THEN <<>>
    ELSE (IF LeadsWith(rules[1], B)
          THEN [k \in 1..Len(bodiesB) |-> bodiesB[k] \o Tail(rules[1])]
          ELSE <<rules[1]>>)
         \o Substitute(Tail(rules), B, bodiesB)

\* lines 91-99: for j in range(i), from j on (nts[1..i-1] are the earlier ones)
RECURSIVE Expand(_, _, _, _, _)
Expand(rules, nts, np, j, i) ==
    IF j >= i THEN rules
    ELSE Expand(Substitute(rules, nts[j], Get(np, nts[j])), nts, np, j + 1, i)

\* line 86: cfg.N.copy(), a new collection holding the members of c
CollectionCopy(c) == [fresh |-> TRUE, val |-> c]

\* set.add(x) on a collection listed in iteration order
AddTo(c, x) == IF x \in Range(c) THEN c ELSE Append(c, x)

\* lines 88-112 from index i on.  st.N is new_non_terminals, st.inN the input's
\* cfg.N as it stands, st.cur the current_rules each nonterminal had at line 101.
\* ntype is the type of cfg.N: line 5 annotates a list, line 119 constructs a
\* set; line 108 calls add, which a list does not have.
RECURSIVE ElimLoop(_, _, _, _, _)
ElimLoop(g, ntype, nts, i, st) ==
    IF i > Len(nts) \/ st.err # "none" THEN st
    ELSE LET A == nts[i]
             current_rules == Expand(Get(g.P, A), nts, st.np, 1, i)
             alpha == SelectSeq(current_rules, LAMBDA r : LeadsWith(r, A))
             beta == SelectSeq(current_rules, LAMBDA r : ~LeadsWith(r, A))
             A_prime == Prime(A)
             seen == Put(st.cur, A, current_rules)
         IN IF alpha # <<>>
            THEN IF ntype = "list"
                 THEN [st EXCEPT !.cur = seen, !.err = "AttributeError"]
                 ELSE ElimLoop(g, ntype, nts, i + 1,
                        [np |-> Put(Put(st.np, A,
                                        [k \in 1..Len(beta) |-> Append(beta[k], A_prime)]),
                                    A_prime,
                                    Append([k \in 1..Len(alpha) |->
                                               Append(Tail(alpha[k]), A_prime)], <<>>)),
                         N |-> [st.N EXCEPT !.val = AddTo(st.N.val, A_prime)],
                         inN |-> IF st.N.fresh THEN st.inN ELSE AddTo(st.inN, A_prime),
                         cur |-> seen,
                         err |-> "none"])
            ELSE ElimLoop(g, ntype, nts, i + 1,
                    [st EXCEPT !.np = Put(st.np, A, current_rules), !.cur = seen])

\* lines 83-112: the state of the locals when the loop ends or line 108 raises
Eliminated(g, ntype) ==
    LET nts == Dedup(g.N, {})
    IN ElimLoop(g, ntype, nts, 1,
            [np |-> [i \in 1..Len(nts) |-> <<nts[i], <<>>>>],
             N |-> CollectionCopy(g.N),
             inN |-> g.N,
             cur |-> <<>>,
             err |-> "none"])

\* line 114: the grammar returned when the locals are st; N holds the members
\* of new_non_terminals
Returned(g, st) ==
    IF st.err # "none" THEN NoGrammar
    ELSE [N |-> Range(st.N.val), Sigma |-> g.Sigma, P |-> st.np, S |-> g.S]

eliminate_left_recursion(g, ntype) == Returned(g, Eliminated(g, ntype))

\* type(cfg.N): line 5 annotates a list, line 119 constructs a set
NTypes == {"list", "set"}

CallFindNullable ==
    /\ pc = "ready"
    /\ nullable' = find_nullable(cfg)
    /\ pc' = "nullable"
    /\ UNCHANGED <<cfg, eps, lr, cur, err>>

CallRemoveEpsilon ==
    /\ pc = "ready"
    /\ eps' \in remove_epsilon_rules(cfg)
    /\ cfg' = AfterRemoveEpsilon(cfg)
    /\ pc' = "eps"
    /\ UNCHANGED <<nullable, lr, cur, err>>

CallEliminate ==
    /\ pc = "ready"
    /\ \E ntype \in NTypes :
         LET st == Eliminated(cfg, ntype)
         IN /\ lr' = Returned(cfg, st)
            /\ cur' = st.cur
            /\ err' = st.err
            /\ cfg' = [cfg EXCEPT !.N = st.inN]
    /\ pc' = "lr"
    /\ UNCHANGED <<nullable, eps>>

\* __main__, line 140: the grammar remove_epsilon_rules returned is the input; it
\* shares its N with cfg (line 80 passes cfg.N on)
CallEliminateAfterEpsilon ==
    /\ pc = "eps"
    /\ \E ntype \in NTypes :
         LET st == Eliminated(eps, ntype)
         IN /\ lr' = Returned(eps, st)
            /\ cur' = st.cur
            /\ err' = st.err
            /\ eps' = [eps EXCEPT !.N = st.inN]
            /\ cfg' = [cfg EXCEPT !.N = st.inN]
    /\ pc' = "final"
    /\ UNCHANGED nullable

Next ==
    \/ CallFindNullable
    \/ CallRemoveEpsilon
    \/ CallEliminate
    \/ CallEliminateAfterEpsilon

Spec == Init /\ [][Next]_vars

(***************************************************************************)
(* What the grammars derive, by bounded search over derivations.  These    *)
(* are the yardsticks the properties below compare the code against.       *)
(***************************************************************************)
LongestBody(P) ==
    LET lens == UNION {{Len(P[i][2][k]) : k \in 1..Len(P[i][2])} : i \in 1..Len(P)} \cup {1}
    IN CHOOSE n \in lens : \A m \in lens : m <= n

\* A tree deriving the empty string in which no nonterminal repeats on a path is
\* no higher than the number of heads, so the sentential forms of its leftmost
\* derivation are no longer than this
FormBound(P) == 1 + Len(P) * (LongestBody(P) - 1)

\* the forms one leftmost rewriting step away, kept while they can still vanish:
\* within the bound and free of symbols that are no heads
Rewrites(P, form) ==
    IF form = <<>> THEN {}
    ELSE {f \in {body \o Tail(form) : body \in Range(Get(P, form[1]))} :
            Len(f) <= FormBound(P) /\ Range(f) \subseteq Keys(P)}

RECURSIVE Derived(_, _)
Derived(P, forms) ==
    LET more == forms \cup UNION {Rewrites(P, f) : f \in forms}
    IN IF more = forms THEN forms ELSE Derived(P, more)

\* X derives the empty string under the productions P
DerivesEmpty(P, X) == HasKey(P, X) /\ <<>> \in Derived(P, {<<X>>})

\* the terminal strings of at most L symbols that body derives when each head h
\* derives D[h]
RECURSIVE BodyStrings(_, _, _, _)
BodyStrings(g, D, body, L) ==
    IF body = <<>> THEN {<<>>}
    ELSE LET first == IF body[1] \in g.Sigma THEN {<<body[1]>>}
                      ELSE IF HasKey(g.P, body[1]) THEN D[body[1]] ELSE {}
             rest == BodyStrings(g, D, Tail(body), L)
         IN {w \in {x \o y : x \in first, y \in rest} : Len(w) <= L}

RECURSIVE Strings(_, _, _)
Strings(g, D, L) ==
    LET more == [h \in Keys(g.P) |->
                    D[h] \cup UNION {BodyStrings(g, D, b, L) : b \in Range(Get(g.P, h))}]
    IN IF more = D THEN D ELSE Strings(g, more, L)

\* the terminal strings of at most L symbols derivable from the start symbol
Language(g, L) == Strings(g, [h \in Keys(g.P) |-> {}], L)[g.S]

\* the symbols that lead body after any chain of replacing its leading
\* nonterminal by one of that nonterminal's bodies (an empty body uncovers the
\* next symbol)
Leaders(g, body) ==
    {body[k] : k \in {m \in 1..Len(body) :
                        \A q \in 1..(m - 1) : DerivesEmpty(g.P, body[q])}}

LeadersOf(g, X) ==
    IF HasKey(g.P, X) THEN UNION {Leaders(g, b) : b \in Range(Get(g.P, X))} ELSE {}

RECURSIVE LedBy(_, _)
LedBy(g, syms) ==
    LET more == syms \cup UNION {LeadersOf(g, X) : X \in syms}
    IN IF more = syms THEN syms ELSE LedBy(g, more)

\* some head has a body that begins with that head, directly or after a chain
LeftRecursive(g) == \E A \in Keys(g.P) : A \in LedBy(g, LeadersOf(g, A))

EpsilonFree(g) == \A i \in 1..Len(g.P) : <<>> \notin Range(g.P[i][2])

EmptyBodies(bodies) == {k \in 1..Len(bodies) : bodies[k] = <<>>}

\* the nonterminals for which eliminate_left_recursion ran lines 107-110
Separated == {cur[i][1] : i \in {k \in 1..Len(cur) :
                                   \E r \in Range(cur[k][2]) : LeadsWith(r, cur[k][1])}}

(***************************************************************************)
(* The properties.                                                         *)
(***************************************************************************)
\* C1: the grammar the pipeline eliminate_left_recursion(remove_epsilon_rules(G))
\* returns has no empty body under any head, except at most one under the start
\* symbol.
C1_PipelineHasNoEpsilon ==
    (pc = "final" /\ err = "none") =>
        \A i \in 1..Len(lr.P) :
            Cardinality(EmptyBodies(lr.P[i][2])) <= (IF lr.P[i][1] = lr.S THEN 1 ELSE 0)

\* C2: a terminal string of at most MaxStrLen symbols (the empty string
\* included) is derivable from the start symbol of G iff it is derivable from
\* the start symbol of remove_epsilon_rules(G).
C2_EpsilonEliminationKeepsLanguage ==
    pc = "eps" => Language(eps, MaxStrLen) = Language(cfg, MaxStrLen)

\* C3: when G has no empty body, no nonterminal of eliminate_left_recursion(G),
\* original or primed, has a body that begins with that nonterminal, directly or
\* after a chain of leading-nonterminal replacements.
C3_NoLeftRecursionLeft ==
    (pc = "lr" /\ err = "none" /\ EpsilonFree(cfg)) => ~LeftRecursive(lr)

\* C4: remove_epsilon_rules(G) has an empty body under the start symbol iff the
\* start symbol of G derives the empty string and the start symbol occurs in no
\* right-hand side of the output.
C4_EpsilonKeptAtStartIff ==
    pc = "eps" =>
        (<<>> \in Range(Get(eps.P, eps.S))
            <=> (DerivesEmpty(cfg.P, cfg.S) /\ ~SInRhs(eps.S, eps.P)))

\* C4's case: the start symbol has no empty body in G, derives the empty string
\* through another nonterminal, and the output has the empty body under it
C4_Witness ==
    /\ pc = "eps"
    /\ <<>> \notin Range(Get(cfg.P, cfg.S))
    /\ <<>> \in Range(Get(eps.P, eps.S))

\* C5: a terminal string of at most MaxStrLen symbols is derivable from the
\* start symbol of G iff it is derivable from the start symbol of
\* eliminate_left_recursion(G).
C5_EliminationKeepsLanguage ==
    (pc = "lr" /\ err = "none") => Language(lr, MaxStrLen) = Language(cfg, MaxStrLen)

\* C6: a nonterminal is in find_nullable(G) iff it derives the empty string
\* under G's productions.
C6_NullableIffDerivesEmpty ==
    pc = "nullable" =>
        \A X \in Range(cfg.N) : X \in nullable <=> DerivesEmpty(cfg.P, X)

\* C6's case: a nonterminal found nullable although none of its bodies is empty,
\* beside a nonterminal found not nullable
C6_Witness ==
    /\ pc = "nullable"
    /\ \E X \in nullable : <<>> \notin Range(Get(cfg.P, X))
    /\ \E X \in Range(cfg.N) : X \notin nullable

\* C7: under every head of remove_epsilon_rules(G) other than the start symbol
\* no body is empty.
C7_NoEpsilonUnderOtherHeads ==
    pc = "eps" =>
        \A i \in 1..Len(eps.P) :
            eps.P[i][1] # eps.S => <<>> \notin Range(eps.P[i][2])

\* C7's case: G has an empty body under a head that is not the start symbol, and
\* a body elsewhere all of whose symbols are that head
C7_Witness ==
    /\ pc = "eps"
    /\ \E i \in 1..Len(cfg.P) :
         /\ cfg.P[i][1] # cfg.S
         /\ <<>> \in Range(cfg.P[i][2])
         /\ \E j \in 1..Len(cfg.P) :
              /\ j # i
              /\ cfg.P[j][1] # cfg.S
              /\ \E b \in Range(cfg.P[j][2]) : b # <<>> /\ Range(b) = {cfg.P[i][1]}

\* C8: the primed name eliminate_left_recursion introduces for a nonterminal
\* with direct recursion is not a nonterminal of the input grammar.
C8_PrimedNameIsFresh ==
    (pc = "lr" /\ err = "none") => \A A \in Separated : Prime(A) \notin Range(cfg.N)

\* C9: neither call changes the grammar it is given: remove_epsilon_rules and
\* eliminate_left_recursion leave cfg as it was, and the second stage of the
\* pipeline leaves the grammar of the first stage as it was.
C9_InputNotMutated ==
    [][cfg' = cfg /\ (pc = "eps" => eps' = eps)]_vars

\* C9's case: the pipeline has run, line 50 wrote into a masked list (a body of
\* G has a nullable symbol) and line 108 added a primed name
C9_Witness ==
    /\ pc = "final"
    /\ err = "none"
    /\ Separated # {}
    /\ \E i \in 1..Len(cfg.P) : \E b \in Range(cfg.P[i][2]) :
         Positions(b, find_nullable(cfg)) # <<>>

\* C10: when the substitution loop for A_i has finished (line 101), no current
\* rule of A_i begins with an earlier nonterminal A_j, j < i.
C10_NoEarlierLeader ==
    pc \in {"lr", "final"} =>
        \A i \in 1..Len(cur) : \A j \in 1..(i - 1) :
            \A r \in Range(cur[i][2]) : ~LeadsWith(r, cur[j][1])

====
